---- MODULE Spec2Model ----
(***************************************************************************)
(* A model of the reaction-search pipeline of iacta:                       *)
(*   react_utils.py   successive_optimization, stretch, reaction_job       *)
(*   analysis.py      postprocess_reaction, read_all_reactions,            *)
(*                    get_species_table, reaction_network_layer,           *)
(*                    analyse_reaction_network                             *)
(*   read_reactions.py  the command-line driver                            *)
(* Python indices are kept 0-based: frame i of a list is seq[i+1].         *)
(* Energies are integers (a fixed-point scale of the Hartree values).      *)
(***************************************************************************)
EXTENDS Integers, Sequences, FiniteSets, TLC

\* ------------------------------------------------------------------ bounds
MaxFrames == 3
MaxE == 2

Energies == 0..MaxE

\* Stereo-resolved identifiers (traj2smiles, chiral=True) and their
\* non-stereo form (chiral=False): two stereoisomers share one non-stereo id.
StereoIds == {"A_R", "A_S", "B"}

NonStereo(s) == IF s \in {"A_R", "A_S"} THEN "A" ELSE s

\* xtb.optimize(fn, fn, level="vtight") without constraints, started from a
\* scanned frame of energy e: the relaxation descends, so the energy read
\* back is at most e; the identifier read back is any identifier
Relaxed(e) == {x \in Energies : x <= e}

\* ------------------------------------------------------------ list helpers
\* Python's seq[a:b] for 0 <= a <= b <= len(seq)
Slice(seq, a, b) == [k \in 1..(b - a) |-> seq[a + k]]

\* seq[::-1]
Reverse(seq) == [k \in 1..Len(seq) |-> seq[Len(seq) + 1 - k]]

\* np.argmin: 0-based index of the first minimal element (seq not empty)
ArgMin(seq) ==
    CHOOSE i \in 0..(Len(seq) - 1) :
        /\ \A j \in 0..(Len(seq) - 1) : seq[i + 1] <= seq[j + 1]
        /\ \A j \in 0..(i - 1) : seq[j + 1] > seq[i + 1]

\* np.argmax: 0-based index of the first maximal element (seq not empty)
ArgMax(seq) ==
    CHOOSE i \in 0..(Len(seq) - 1) :
        /\ \A j \in 0..(Len(seq) - 1) : seq[i + 1] >= seq[j + 1]
        /\ \A j \in 0..(i - 1) : seq[j + 1] < seq[i + 1]

SeqMin(seq) == seq[ArgMin(seq) + 1]

SeqMax(seq) == seq[ArgMax(seq) + 1]

Range(seq) == {seq[k] : k \in 1..Len(seq)}

\* list.index(x): 0-based position of the first occurrence
IndexOf(seq, x) == CHOOSE i \in 0..(Len(seq) - 1) :
                      /\ seq[i + 1] = x
                      /\ \A j \in 0..(i - 1) : seq[j + 1] # x

VARIABLES
    \* postprocess_reaction
    smiles,        \* stereo-resolved identifier of every frame of opt.xyz
    E,             \* energy of every frame of opt.xyz
    regions,       \* list of (start, end) pairs
    imins,         \* accepted minima
    ipots,         \* stretch points
    stable,        \* stability flag of every stretch point
    out,           \* the pathway record being assembled
    seg_pc

segVars == <<smiles, E, regions, imins, ipots, stable, out, seg_pc>>

VARIABLES
    \* the aggregation run of read_reactions.py
    pathways,      \* rows returned by read_all_reactions, in row order
    species,       \* get_species_table: identifier -> entry
    species_index, \* the identifiers of the sorted species table, in order
    cat_row,       \* get_species_table: row being folded (0-based)
    cat_k,         \* get_species_table: point being folded (0-based)
    cat_pc,
    exit_status    \* <<status>> once the process has exited, << >> before

catVars == <<pathways, species, species_index, cat_row, cat_k, cat_pc,
             exit_status>>

VARIABLES
    \* one call of reaction_network_layer
    layer_reactant, \* the reactant argument
    layer_exclude,  \* the exclude argument
    layer,          \* the rows of the edge table collected so far
    layer_k,        \* number of pathway rows already scanned
    layer_pc

layerVars == <<layer_reactant, layer_exclude, layer, layer_k, layer_pc>>

VARIABLES
    \* one run of analyse_reaction_network
    reactants,       \* the seed list argument
    sort_by_barrier, \* argument
    reaction_local,  \* argument
    todo,
    done,
    layerind,
    iden,
    final_reactions, \* the summary rows, in the order they were appended
    reactions_table, \* the detail rows, in the order they were appended
    net_pc

netVars == <<reactants, sort_by_barrier, reaction_local, todo, done,
             layerind, iden, final_reactions, reactions_table, net_pc>>

VARIABLES
    \* the output folder and the runs of read_all_reactions over it
    disk,          \* path -> what the folder reactions/<path> holds
    snapshot,      \* results_raw.pkl: whether it exists, and its rows
    data,          \* the table the last run returned
    failed,        \* the failed list of the last run
    restart,       \* the restart argument of the last run
    snap_before,   \* results_raw.pkl as the last run found it
    changes,       \* number of changes to the folders so far
    store_pc

storeVars == <<disk, snapshot, data, failed, restart, snap_before,
               changes, store_pc>>

VARIABLES
    \* one scan job (react_job) or one call of stretch
    job_kind,      \* "react" or "stretch"
    constraints,   \* number of constraints of the schedule
    mtd_index,     \* the pivot of the schedule
    chain,         \* the chain that runs: "forward", "backward" or "none"
    steps,         \* the schedule steps of the running chain, in its order
    job_i,         \* the loop index i of successive_optimization
    structures,    \* the samples the running chain has collected
    energies,      \* their energies
    fstructs, fe,  \* what the forward chain returned
    bstructs, be,  \* what the backward chain returned
    open_fds,      \* file handles that are open
    scratch,       \* scratch files that exist
    calls,         \* the engine invocations so far, in order
    sentinels,     \* the sentinel files in the output folder
    output,        \* the stitched trajectory, once written
    job_pc

jobVars == <<job_kind, constraints, mtd_index, chain, steps, job_i,
             structures, energies, fstructs, fe, bstructs, be, open_fds,
             scratch, calls, sentinels, output, job_pc>>

VARIABLES
    \* scan jobs of one batch run by a pool of worker threads
    pool_n,        \* number of constraints of the schedule of the batch
    pool_pivot,    \* mtd_index of the batch
    fails,         \* job -> the schedule step its engine fails at, or -1
    p_pc,          \* job -> where the job stands
    p_chain,       \* job -> the chain it runs
    p_i,           \* job -> loop index of its chain
    p_cur,         \* job -> name of its scratch file, 0 without one
    p_structs,     \* job -> samples of the running chain
    p_fstructs,    \* job -> what its forward chain returned
    p_bstructs,    \* job -> what its backward chain returned
    sfiles,        \* the scratch directory: name -> file
    ofiles         \* the output folders: folder -> files

poolVars == <<pool_n, pool_pivot, fails, p_pc, p_chain, p_i, p_cur,
              p_structs, p_fstructs, p_bstructs, sfiles, ofiles>>

vars == <<segVars, catVars, layerVars, netVars, storeVars, jobVars,
          poolVars>>

notSeg == <<catVars, layerVars, netVars, storeVars, jobVars, poolVars>>

notCat == <<segVars, layerVars, netVars, storeVars, jobVars, poolVars>>

\* a call of reaction_network_layer reads pathways and species
notLayer == <<segVars, species_index, cat_row, cat_k, cat_pc, exit_status,
              netVars, storeVars, jobVars, poolVars>>

\* analyse_reaction_network reads pathways and species
notNet == <<segVars, catVars, layerVars, storeVars, jobVars, poolVars>>

notStore == <<segVars, catVars, layerVars, netVars, jobVars, poolVars>>

notJob == <<segVars, catVars, layerVars, netVars, storeVars, poolVars>>

notPool == <<segVars, catVars, layerVars, netVars, storeVars, jobVars>>

\* ------------------------------------------- a component that does not run
NoRecord == [E |-> << >>, SMILES_c |-> << >>, SMILES_i |-> << >>,
             is_stable |-> << >>, stretch_points |-> << >>]

EmptySpecies == [x \in {} |-> 0]

IdleSeg ==
    /\ smiles = << >> /\ E = << >> /\ regions = << >> /\ imins = << >>
    /\ ipots = << >> /\ stable = << >> /\ out = NoRecord /\ seg_pc = "idle"

IdleLayer ==
    /\ layer_reactant = "" /\ layer_exclude = {} /\ layer = << >>
    /\ layer_k = 0 /\ layer_pc = "idle"

IdleNet ==
    /\ reactants = << >> /\ sort_by_barrier = FALSE /\ reaction_local = FALSE
    /\ todo = << >> /\ done = << >> /\ layerind = 0 /\ iden = 0
    /\ final_reactions = << >> /\ reactions_table = << >> /\ net_pc = "idle"

NoSnapshot == [exists |-> FALSE, rows |-> << >>]

IdleStore ==
    /\ disk = << >> /\ snapshot = NoSnapshot /\ data = << >> /\ failed = << >>
    /\ restart = FALSE /\ snap_before = NoSnapshot /\ changes = 0
    /\ store_pc = "idle"

IdleJob ==
    /\ job_kind = "react" /\ constraints = 0 /\ mtd_index = 0
    /\ chain = "none" /\ steps = << >> /\ job_i = 0
    /\ structures = << >> /\ energies = << >>
    /\ fstructs = << >> /\ fe = << >> /\ bstructs = << >> /\ be = << >>
    /\ open_fds = {} /\ scratch = {} /\ calls = << >> /\ sentinels = {}
    /\ output = << >> /\ job_pc = "idle"

IdlePool ==
    /\ pool_n = 0 /\ pool_pivot = 0 /\ fails = << >>
    /\ p_pc = << >> /\ p_chain = << >> /\ p_i = << >> /\ p_cur = << >>
    /\ p_structs = << >> /\ p_fstructs = << >> /\ p_bstructs = << >>
    /\ sfiles = << >> /\ ofiles = << >>

IdleCat ==
    /\ pathways = << >> /\ species = EmptySpecies /\ species_index = << >>
    /\ cat_row = 0 /\ cat_k = 0 /\ cat_pc = "idle" /\ exit_status = << >>

\* ---------------------------------------------------- pathway records
\* A row of the pathways table: the record of one folder. smiles is the
\* column chosen by chemical_id; point k of a row is element k+1.
Species == {"A", "B", "C"}

\* the stability flags postprocess_reaction can produce for n points: the
\* first and the last point are stable, a transition point stands between
\* two stable points
FlagPatterns(n) ==
    {f \in [1..n -> BOOLEAN] :
        /\ f[1] /\ f[n]
        /\ \A k \in 1..(n - 1) : f[k] \/ f[k + 1]}

Row(f, en, sm, st) ==
    [folder |-> f, E |-> en, smiles |-> sm, is_stable |-> st,
     stretch_points |-> [k \in 1..Len(en) |-> k - 1]]

Folders == {"f1", "f2", "f3"}

\* rows have pairwise distinct folders (the index of the table)
DistinctFolders(rows) ==
    \A a, b \in 1..Len(rows) : a # b => rows[a].folder # rows[b].folder

\* ------------------------------------------------- get_species_table
MaxCatRows == 2

CatIds == {"A", "B"}

CatEnergies == {0, 1, 2}

CatRecords ==
    UNION {{Row("f", en, sm, st) : en \in [1..n -> CatEnergies],
                                   sm \in [1..n -> CatIds],
                                   st \in FlagPatterns(n)} : n \in 1..2}

Entry(row, k) ==
    [smiles |-> row.smiles[k + 1],
     E |-> row.E[k + 1],
     file |-> <<row.folder, row.stretch_points[k + 1]>>,
     position |-> row.stretch_points[k + 1]]

\* a fold that keeps the later entry whatever its energy
FoldLastWins(sp, row, k) ==
    IF ~row.is_stable[k + 1] THEN sp
    ELSE LET smi == row.smiles[k + 1]
         IN [x \in DOMAIN sp \cup {smi} |->
                IF x = smi THEN Entry(row, k) ELSE sp[x]]

\* lines 228-242: fold point k of a row into the species dictionary
Fold(sp, row, k) ==
    IF ~row.is_stable[k + 1] THEN sp
    ELSE LET smi == row.smiles[k + 1]
         IN IF smi \in DOMAIN sp
            THEN IF row.E[k + 1] < sp[smi].E
                 THEN [sp EXCEPT ![smi] = Entry(row, k)]
                 ELSE sp
            ELSE [x \in DOMAIN sp \cup {smi} |->
                     IF x = smi THEN Entry(row, k) ELSE sp[x]]

RECURSIVE FoldRow(_, _, _)
FoldRow(sp, row, k) ==
    IF k >= Len(row.is_stable) THEN sp
    ELSE FoldRow(Fold(sp, row, k), row, k + 1)

RECURSIVE FoldRows(_, _, _)
FoldRows(sp, rows, r) ==
    IF r > Len(rows) THEN sp
    ELSE FoldRows(FoldRow(sp, rows[r], 0), rows, r + 1)

\* the dictionary of lines 224-242 for a whole table
SpeciesTable(rows) == FoldRows(EmptySpecies, rows, 1)

\* all orders of a finite set
Perms(S) == {q \in [1..Cardinality(S) -> S] : Range(q) = S}

\* line 248: the orders sort_values('E') can give (ties in any order)
SortedByE(sp) ==
    {q \in Perms(DOMAIN sp) :
        \A a, b \in 1..Len(q) : a < b => sp[q[a]].E <= sp[q[b]].E}

InitCat ==
    /\ IdleStore
    /\ IdleJob
    /\ IdlePool
    /\ IdleNet
    /\ IdleSeg
    /\ IdleLayer
    /\ \E n \in 0..MaxCatRows :
          \E rs \in [1..n -> CatRecords] :
             \* the folder names are given in row order
             pathways = [k \in 1..n |->
                           [rs[k] EXCEPT !.folder = <<"f1", "f2", "f3">>[k]]]
    /\ species = EmptySpecies
    /\ species_index = << >>
    /\ cat_row = 0
    /\ cat_k = 0
    /\ cat_pc = "fold"
    /\ exit_status = << >>

\* the rows of the table that have no point at all are stepped over
FoldDone == cat_row >= Len(pathways)

\* one turn of the inner loop of lines 226-242
FoldPoint ==
    /\ cat_pc = "fold"
    /\ ~FoldDone
    /\ cat_k < Len(pathways[cat_row + 1].is_stable)
    /\ species' = Fold(species, pathways[cat_row + 1], cat_k)
    /\ cat_k' = cat_k + 1
    /\ UNCHANGED <<pathways, species_index, cat_row, cat_pc, exit_status>>
    /\ UNCHANGED notCat

\* the inner loop ends, the outer loop takes the next row
NextRow ==
    /\ cat_pc = "fold"
    /\ ~FoldDone
    /\ cat_k >= Len(pathways[cat_row + 1].is_stable)
    /\ cat_row' = cat_row + 1
    /\ cat_k' = 0
    /\ UNCHANGED <<pathways, species, species_index, cat_pc, exit_status>>
    /\ UNCHANGED notCat

\* lines 244-246: no species, the process ends through SystemExit(0)
NoSpecies ==
    /\ cat_pc = "fold"
    /\ FoldDone
    /\ Cardinality(DOMAIN species) = 0
    /\ cat_pc' = "exit"
    /\ exit_status' = <<0>>
    /\ UNCHANGED <<pathways, species, species_index, cat_row, cat_k>>
    /\ UNCHANGED notCat

\* lines 247-256: the table sorted by energy
BuildTable ==
    /\ cat_pc = "fold"
    /\ FoldDone
    /\ Cardinality(DOMAIN species) # 0
    /\ species_index' \in SortedByE(species)
    /\ cat_pc' = "built"
    /\ UNCHANGED <<pathways, species, cat_row, cat_k, exit_status>>
    /\ UNCHANGED notCat

NextCat ==
    \/ FoldPoint
    \/ NextRow
    \/ NoSpecies
    \/ BuildTable

\* ------------------------------------------- reaction_network_layer
MaxLayerPoints == 4

LayerIds == {"A", "B"}

LayerEnergies == {0, 1, 2}

\* lines 285 and 313: position of the transition state for the reactant at
\* i and the product at j
TsPos(en, i, j) ==
    IF j > i THEN ArgMax(Slice(en, i, j)) + i
             ELSE ArgMax(Slice(en, j, i)) + j

\* a barrier test that compares with the reactant only
NoBarrierReactantOnly(en, i, j, tspos) ==
    en[tspos + 1] <= en[i + 1]

\* lines 291 and 319: the edge is dropped
NoBarrier(en, i, j, tspos) ==
    en[tspos + 1] <= en[i + 1] \/ en[tspos + 1] <= en[j + 1]

\* lines 294-306 and 322-334: the row appended for the edge i -> j
Edge(row, sp, reactant, i, j, tspos) ==
    [to |-> row.smiles[j + 1],
     E_TS |-> row.E[tspos + 1],
     barrier |-> row.E[tspos + 1] - row.E[i + 1],
     dE |-> sp[row.smiles[j + 1]].E - sp[reactant].E,
     local_dE |-> row.E[j + 1] - row.E[i + 1],
     i_TS |-> row.stretch_points[tspos + 1],
     i_P |-> row.stretch_points[j + 1],
     i_R |-> row.stretch_points[i + 1],
     folder |-> row.folder]

\* the body of the loops of lines 280 and 308 for one j
EdgesTo(row, sp, reactant, exclude, i, j) ==
    IF row.is_stable[j + 1] /\ row.smiles[j + 1] \notin exclude
    THEN LET tspos == TsPos(row.E, i, j)
         IN IF NoBarrier(row.E, i, j, tspos) THEN << >>
            ELSE <<Edge(row, sp, reactant, i, j, tspos)>>
    ELSE << >>

\* line 280: for j in range(i+1, len(stable))
RECURSIVE ForwardEdges(_, _, _, _, _, _)
ForwardEdges(row, sp, reactant, exclude, i, j) ==
    IF j >= Len(row.is_stable) THEN << >>
    ELSE EdgesTo(row, sp, reactant, exclude, i, j)
         \o ForwardEdges(row, sp, reactant, exclude, i, j + 1)

\* line 308: for j in range(i-1, -1, -1)
RECURSIVE BackwardEdges(_, _, _, _, _, _)
BackwardEdges(row, sp, reactant, exclude, i, j) ==
    IF j < 0 THEN << >>
    ELSE EdgesTo(row, sp, reactant, exclude, i, j)
         \o BackwardEdges(row, sp, reactant, exclude, i, j - 1)

\* lines 273-334: the edges one pathway row contributes
RowEdges(row, sp, reactant, exclude) ==
    IF reactant \in Range(row.smiles)
    THEN LET i == IndexOf(row.smiles, reactant)
         IN ForwardEdges(row, sp, reactant, exclude, i, i + 1)
            \o BackwardEdges(row, sp, reactant, exclude, i, i - 1)
    ELSE << >>

\* lines 272-350: the edge table of a whole call (the reactant is in sp)
RECURSIVE LayerFrom(_, _, _, _, _)
LayerFrom(rows, sp, reactant, exclude, r) ==
    IF r > Len(rows) THEN << >>
    ELSE RowEdges(rows[r], sp, reactant, exclude)
         \o LayerFrom(rows, sp, reactant, exclude, r + 1)

Layer(rows, sp, reactant, exclude) == LayerFrom(rows, sp, reactant, exclude, 1)

InitLayer ==
    /\ IdleStore
    /\ IdleJob
    /\ IdlePool
    /\ IdleSeg
    /\ IdleNet
    /\ \E n \in 1..MaxLayerPoints :
          \E en \in [1..n -> LayerEnergies], sm \in [1..n -> LayerIds],
             st \in FlagPatterns(n) :
             pathways = <<Row("f1", en, sm, st)>>
    /\ species = SpeciesTable(pathways)
    /\ species_index = << >> /\ cat_row = 0 /\ cat_k = 0
    /\ cat_pc = "idle" /\ exit_status = << >>
    /\ layer_reactant \in LayerIds
    /\ layer_exclude \in SUBSET LayerIds
    /\ layer = << >>
    /\ layer_k = 0
    /\ layer_pc = "lookup"

\* line 270: species.E.loc[reactant]
LayerLookup ==
    /\ layer_pc = "lookup"
    /\ layer_reactant \in DOMAIN species
    /\ layer_pc' = "rows"
    /\ UNCHANGED <<pathways, species, layer_reactant, layer_exclude, layer,
                   layer_k>>
    /\ UNCHANGED notLayer

\* line 270 raises KeyError for a reactant that is not in the species table
LayerKeyError ==
    /\ layer_pc = "lookup"
    /\ layer_reactant \notin DOMAIN species
    /\ layer_pc' = "raised"
    /\ UNCHANGED <<pathways, species, layer_reactant, layer_exclude, layer,
                   layer_k>>
    /\ UNCHANGED notLayer

\* one turn of the loop of line 272
LayerRow ==
    /\ layer_pc = "rows"
    /\ layer_k < Len(pathways)
    /\ layer' = layer \o RowEdges(pathways[layer_k + 1], species,
                                  layer_reactant, layer_exclude)
    /\ layer_k' = layer_k + 1
    /\ UNCHANGED <<pathways, species, layer_reactant, layer_exclude, layer_pc>>
    /\ UNCHANGED notLayer

\* lines 336-350
LayerReturn ==
    /\ layer_pc = "rows"
    /\ layer_k >= Len(pathways)
    /\ layer_pc' = "done"
    /\ UNCHANGED <<pathways, species, layer_reactant, layer_exclude, layer,
                   layer_k>>
    /\ UNCHANGED notLayer

NextLayer ==
    \/ LayerLookup
    \/ LayerKeyError
    \/ LayerRow
    \/ LayerReturn

\* ----------------------------------------- analyse_reaction_network
MaxSeeds == 2

NetIds == {"A", "B", "C"}

\* energies of a minimum, the maximum after it and the next minimum
NetShapes == {<<0, 2, 0>>, <<2, 3, 0>>}

NetRowCounts == {1, 2}

\* a row of three points: a minimum x, the transition point after it (in
\* the region of x, so with its identifier) and a minimum y
NetRecords ==
    {Row("f", en, <<x, x, y>>, <<TRUE, FALSE, TRUE>>) :
        en \in NetShapes, x \in NetIds, y \in NetIds}

SetMin(S) == CHOOSE x \in S : \A y \in S : x <= y

\* the rows of the layer that lead to p, by position in the layer
RowsTo(lay, p) == {e \in 1..Len(lay) : lay[e].to = p}

\* lines 375-388: the sort key of a product
SortKey(lay, p, byBarrier, local) ==
    SetMin({(IF byBarrier
             THEN (IF local THEN lay[e].barrier ELSE lay[e].E_TS)
             ELSE (IF local THEN lay[e].local_dE ELSE lay[e].dE)) :
            e \in RowsTo(lay, p)})

\* lines 374-388: the orders sorted() can give to list(set(layer.to)); the
\* order of a set is not fixed, so equal keys come in any order
ProductOrders(lay, byBarrier, local) ==
    {q \in Perms({lay[e].to : e \in 1..Len(lay)}) :
        \A a, b \in 1..Len(q) :
            a < b => SortKey(lay, q[a], byBarrier, local)
                        <= SortKey(lay, q[b], byBarrier, local)}

\* a representative row taken by E_TS in both modes
FirstMinByETS(lay, rows, local) ==
    CHOOSE e \in rows :
        \A o \in rows :
            lay[e].E_TS < lay[o].E_TS \/ (lay[e].E_TS = lay[o].E_TS /\ e <= o)

\* idxmin: the first row of the minimal value
FirstMin(lay, rows, local) ==
    CHOOSE e \in rows :
        \A o \in rows :
            LET ve == IF local THEN lay[e].barrier ELSE lay[e].E_TS
                vo == IF local THEN lay[o].barrier ELSE lay[o].E_TS
            IN ve < vo \/ (ve = vo /\ e <= o)

\* lines 404-411: the representative row of the reaction to p
Best(lay, p, local) == lay[FirstMin(lay, RowsTo(lay, p), local)]

\* a summary row that names the product as the reactant
SummaryReversed(lay, current, p, id, E0, local) ==
    LET best == Best(lay, p, local)
    IN [from |-> p, to |-> current, reaction_id |-> id,
        dE |-> IF local THEN best.local_dE ELSE best.dE,
        dE_TS |-> IF local THEN best.barrier ELSE best.E_TS - E0,
        best_TS_pathway |-> best.folder,
        TS_index |-> best.i_TS]

\* lines 428-437 (the unit factor hartree_ev * ev_kcalmol is left out)
Summary(lay, current, p, id, E0, local) ==
    LET best == Best(lay, p, local)
    IN [from |-> current, to |-> p, reaction_id |-> id,
        dE |-> IF local THEN best.local_dE ELSE best.dE,
        dE_TS |-> IF local THEN best.barrier ELSE best.E_TS - E0,
        best_TS_pathway |-> best.folder,
        TS_index |-> best.i_TS]

\* the E_TS values of a set of layer rows in ascending order
RECURSIVE Ascending(_, _)
Ascending(lay, rows) ==
    IF rows = {} THEN << >>
    ELSE LET e == CHOOSE x \in rows : \A o \in rows : lay[x].E_TS <= lay[o].E_TS
         IN <<lay[e].E_TS>> \o Ascending(lay, rows \ {e})

\* lines 413-418: the detail rows of reaction id, sorted by E_TS and numbered
\* (of the columns only E_TS is kept)
Details(lay, p, id) ==
    LET ets == Ascending(lay, RowsTo(lay, p))
    IN [k \in 1..Len(ets) |->
           [reaction_id |-> id, traj_id |-> k, E_TS |-> ets[k]]]

\* an exclusion list that forgets the species already expanded
ExcludeCurrentOnly(dn, current) == {current}

\* line 371: exclude=done + [current]
Exclude(dn, current) == Range(dn) \cup {current}

\* an enqueue that does not look at the queue
EnqueueUnlessDone(q, dn, p) ==
    IF p \notin Range(dn) THEN Append(q, p) ELSE q

\* lines 440-441
Enqueue(q, dn, p) ==
    IF p \notin Range(dn) /\ p \notin Range(q) THEN Append(q, p) ELSE q

\* lines 399-441: the loop over the products, from the k-th on; st holds
\* final_reactions, reactions_table, iden and todo
RECURSIVE ProductLoop(_, _, _, _, _, _, _, _)
ProductLoop(lay, current, order, k, E0, local, dn, st) ==
    IF k > Len(order) THEN st
    ELSE ProductLoop(lay, current, order, k + 1, E0, local, dn,
            [final |-> Append(st.final,
                              Summary(lay, current, order[k], st.iden, E0, local)),
             table |-> st.table \o Details(lay, order[k], st.iden),
             iden |-> st.iden + 1,
             todo |-> Enqueue(st.todo, dn, order[k])])

InitNet ==
    /\ IdleStore
    /\ IdleJob
    /\ IdlePool
    /\ IdleSeg
    /\ IdleLayer
    /\ \E n \in NetRowCounts :
          \E rs \in [1..n -> NetRecords] :
             pathways = [k \in 1..n |->
                           [rs[k] EXCEPT !.folder = <<"f1", "f2", "f3">>[k]]]
    /\ species = SpeciesTable(pathways)
    /\ species_index = << >> /\ cat_row = 0 /\ cat_k = 0
    /\ cat_pc = "idle" /\ exit_status = << >>
    /\ \E n \in 1..MaxSeeds : reactants \in [1..n -> NetIds]
    /\ sort_by_barrier \in BOOLEAN
    /\ reaction_local \in BOOLEAN
    /\ todo = reactants
    /\ done = << >>
    /\ layerind = 1
    /\ iden = 1
    /\ final_reactions = << >>
    /\ reactions_table = << >>
    /\ net_pc = "loop"

\* line 370 -> line 270: the popped species is not in the species table and
\* species.E.loc raises KeyError
ExpandKeyError ==
    /\ net_pc = "loop"
    /\ todo # << >>
    /\ Head(todo) \notin DOMAIN species
    /\ todo' = Tail(todo)
    /\ net_pc' = "raised"
    /\ UNCHANGED <<reactants, sort_by_barrier, reaction_local, done, layerind,
                   iden, final_reactions, reactions_table>>
    /\ UNCHANGED notNet

\* lines 369-392: a species without any edge
ExpandNothing ==
    /\ net_pc = "loop"
    /\ todo # << >>
    /\ Head(todo) \in DOMAIN species
    /\ Layer(pathways, species, Head(todo), Exclude(done, Head(todo))) = << >>
    /\ todo' = Tail(todo)
    /\ done' = Append(done, Head(todo))
    /\ UNCHANGED <<reactants, sort_by_barrier, reaction_local, layerind,
                   iden, final_reactions, reactions_table, net_pc>>
    /\ UNCHANGED notNet

\* lines 369-444: one turn of the while loop for a species with edges
Expand ==
    /\ net_pc = "loop"
    /\ todo # << >>
    /\ Head(todo) \in DOMAIN species
    /\ LET current == Head(todo)
           lay == Layer(pathways, species, current, Exclude(done, current))
       IN /\ lay # << >>
          /\ \E order \in ProductOrders(lay, sort_by_barrier, reaction_local) :
                LET st == ProductLoop(lay, current, order, 1,
                                      species[current].E, reaction_local, done,
                                      [final |-> final_reactions,
                                       table |-> reactions_table,
                                       iden |-> iden,
                                       todo |-> Tail(todo)])
                IN /\ final_reactions' = st.final
                   /\ reactions_table' = st.table
                   /\ iden' = st.iden
                   /\ todo' = st.todo
          /\ done' = Append(done, current)
          /\ layerind' = layerind + 1
    /\ UNCHANGED <<reactants, sort_by_barrier, reaction_local, net_pc>>
    /\ UNCHANGED notNet

\* lines 446-448 with at least one reaction
NetReturn ==
    /\ net_pc = "loop"
    /\ todo = << >>
    /\ final_reactions # << >>
    /\ net_pc' = "done"
    /\ UNCHANGED <<reactants, sort_by_barrier, reaction_local, todo, done,
                   layerind, iden, final_reactions, reactions_table>>
    /\ UNCHANGED notNet

\* lines 446-447 without any reaction: set_index on a table that has no
\* column reaction_id raises KeyError
NetReturnEmpty ==
    /\ net_pc = "loop"
    /\ todo = << >>
    /\ final_reactions = << >>
    /\ net_pc' = "raised"
    /\ UNCHANGED <<reactants, sort_by_barrier, reaction_local, todo, done,
                   layerind, iden, final_reactions, reactions_table>>
    /\ UNCHANGED notNet

NextNet ==
    \/ ExpandKeyError
    \/ ExpandNothing
    \/ Expand
    \/ NetReturn
    \/ NetReturnEmpty

\* ------------------------------------------------- read_all_reactions
MaxPaths == 2

\* changes to the folders that are followed
MaxChanges == 1

\* the folders reactions/[0-9]* are named 1, 2, ...
Paths == 1..MaxPaths

\* what a folder holds: reaction_data.json (readable or not there), the
\* sentinels FAILED_FORWARD and FAILED_BACKWARD
FolderStates == [json : BOOLEAN, failed_forward : BOOLEAN,
                 failed_backward : BOOLEAN]

Absent == [json |-> FALSE, failed_forward |-> FALSE,
           failed_backward |-> FALSE, absent |-> TRUE]

\* line 132: the paths glob finds
Globbed(d) == {p \in Paths : d[p] # Absent}

\* the orders in which glob lists the folders S: by name, upwards or
\* downwards
GlobOrders(S) ==
    {q \in Perms(S) :
        \/ \A a, b \in 1..Len(q) : a < b => q[a] < q[b]
        \/ \A a, b \in 1..Len(q) : a < b => q[a] > q[b]}

\* lines 158-159
HasSentinel(fs) == fs.failed_forward \/ fs.failed_backward

\* lines 157-169: the try block ends without an exception
Readable(fs) == ~HasSentinel(fs) /\ fs.json

Index(rows) == {rows[k].index : k \in 1..Len(rows)}

\* lines 139-148
OldRows(useRestart, snap) ==
    IF useRestart /\ snap.exists THEN snap.rows ELSE << >>

\* the reparser argument: None, or a function that raises on the structure
\* files of the folders in raises (of one folder at most)
Reparsers(d) ==
    {[given |-> FALSE, raises |-> {}]}
    \cup {[given |-> TRUE, raises |-> R] :
             R \in {{}} \cup {{p} : p \in Globbed(d)}}

\* lines 176-191: with a reparser, the structure files of a folder just
\* read are parsed again
ReparserRaises(reparser, f) == reparser.given /\ f \in reparser.raises

\* line 168 and line 174: the record read from folder f, its folder field
\* overwritten; uid tells which folder on disk the record was computed from
ReadOut(d, f) == [index |-> f, folder |-> f, uid |-> d[f].uid]

\* a scan that parses the folders of the snapshot again
RECURSIVE ScanFoldersNoSkip(_, _, _, _, _, _)
ScanFoldersNoSkip(d, old, q, k, st, reparser) ==
    IF k > Len(q) THEN st
    ELSE LET f == q[k]
         IN IF Readable(d[f])
            THEN LET st1 == [st EXCEPT !.pathways = Append(@, ReadOut(d, f))]
                 IN IF ReparserRaises(reparser, f)
                    THEN [st1 EXCEPT !.raised = TRUE]
                    ELSE ScanFoldersNoSkip(d, old, q, k + 1, st1, reparser)
            ELSE ScanFoldersNoSkip(d, old, q, k + 1,
                   [st EXCEPT !.failed = Append(@, f)], reparser)

\* lines 152-191 over the folders in glob order q, from the k-th on; st
\* holds pathways (with new_indices as the row index), failed, and whether
\* an exception has left the loop
RECURSIVE ScanFolders(_, _, _, _, _, _)
ScanFolders(d, old, q, k, st, reparser) ==
    IF k > Len(q) THEN st
    ELSE LET f == q[k]
         IN IF f \in Index(old)
            THEN ScanFolders(d, old, q, k + 1, st, reparser)
            ELSE IF Readable(d[f])
                 THEN LET st1 == [st EXCEPT !.pathways =
                                     Append(@, ReadOut(d, f))]
                      IN IF ReparserRaises(reparser, f)
                         THEN [st1 EXCEPT !.raised = TRUE]
                         ELSE ScanFolders(d, old, q, k + 1, st1, reparser)
                 ELSE ScanFolders(d, old, q, k + 1,
                        [st EXCEPT !.failed = Append(@, f)], reparser)

\* a folder on disk, with the identity it keeps when it is renamed
OnDisk(fs, u) == [json |-> fs.json, failed_forward |-> fs.failed_forward,
                  failed_backward |-> fs.failed_backward, uid |-> u]

\* the identities of the folders on disk
Uids(d) == {d[p].uid : p \in Globbed(d)}

InitStore ==
    /\ IdleSeg /\ IdleCat /\ IdleLayer /\ IdleNet /\ IdleJob /\ IdlePool
    /\ \E d0 \in [Paths -> FolderStates \cup {Absent}] :
          disk = [p \in Paths |->
                    IF d0[p] = Absent THEN Absent ELSE OnDisk(d0[p], p)]
    /\ snapshot = NoSnapshot
    /\ data = << >>
    /\ failed = << >>
    /\ restart = FALSE
    /\ snap_before = NoSnapshot
    /\ changes = 0
    /\ store_pc = "idle"

\* lines 122-217: one run of read_all_reactions
ReadAllReactions ==
    /\ \E useRestart \in BOOLEAN, save \in BOOLEAN, q \in GlobOrders(Globbed(disk)),
          reparser \in Reparsers(disk) :
          LET old == OldRows(useRestart, snapshot)
              st == ScanFolders(disk, old, q, 1,
                                [pathways |-> << >>, failed |-> << >>,
                                 raised |-> FALSE], reparser)
              all == old \o st.pathways
          IN /\ restart' = useRestart
             /\ failed' = st.failed
             /\ IF st.raised
                THEN \* the exception leaves the function at line 189
                     /\ data' = << >>
                     /\ snapshot' = snapshot
                     /\ store_pc' = "raised"
                ELSE /\ data' = all
                     /\ snapshot' = IF save /\ Len(st.pathways) > 0
                                    THEN [exists |-> TRUE, rows |-> all]
                                    ELSE snapshot
                     /\ store_pc' = "returned"
    /\ snap_before' = snapshot
    /\ UNCHANGED <<disk, changes>>
    /\ UNCHANGED notStore

\* what the last run returned is no longer looked at once the folders
\* change
Forgotten ==
    /\ data' = << >> /\ failed' = << >> /\ restart' = FALSE
    /\ snap_before' = NoSnapshot /\ store_pc' = "idle"

\* a scan job ends in a folder that did not exist
FolderAppears ==
    /\ changes < MaxChanges
    /\ \E p \in Paths, fs \in FolderStates :
          /\ disk[p] = Absent
          /\ disk' = [disk EXCEPT ![p] =
                         OnDisk(fs, CHOOSE u \in Paths : u \notin Uids(disk))]
    /\ changes' = changes + 1
    /\ Forgotten
    /\ UNCHANGED snapshot
    /\ UNCHANGED notStore

\* a scan job run again in its folder fails: the engine leaves a sentinel
SentinelAppears ==
    /\ changes < MaxChanges
    /\ \E p \in Paths, forward \in BOOLEAN :
          /\ disk[p] # Absent
          /\ disk' = [disk EXCEPT ![p] =
                         IF forward THEN [@ EXCEPT !.failed_forward = TRUE]
                                    ELSE [@ EXCEPT !.failed_backward = TRUE]]
          /\ disk'[p] # disk[p]
    /\ changes' = changes + 1
    /\ Forgotten
    /\ UNCHANGED snapshot
    /\ UNCHANGED notStore

\* the user gives a folder another name between two runs
FolderRenamed ==
    /\ changes < MaxChanges
    /\ \E p \in Paths, q \in Paths :
          /\ disk[p] # Absent
          /\ disk[q] = Absent
          /\ disk' = [disk EXCEPT ![p] = Absent, ![q] = disk[p]]
    /\ changes' = changes + 1
    /\ Forgotten
    /\ UNCHANGED snapshot
    /\ UNCHANGED notStore

NextStore ==
    \/ ReadAllReactions
    \/ FolderAppears
    \/ SentinelAppears
    \/ FolderRenamed

\* ----------------------------- react_job, successive_optimization, stretch
MaxSteps == 3

MaxLog == 2

\* energies of the frames of a relaxation log
LogEnergies == {1, 2}

\* parameters["emax"]
emax == 1

\* the default of the barrier argument, which react_job leaves alone
barrier == TRUE

\* the relaxation logs the engine can leave behind after a run with status 0
Logs == UNION {[1..n -> LogEnergies] : n \in 0..MaxLog}

\* lines 344 and 361: the failout path of a chain; stretch hands on the
\* failout argument of its caller
Failout(c) ==
    IF c = "forward" THEN "FAILED_FORWARD"
    ELSE IF c = "backward" THEN "FAILED_BACKWARD"
    ELSE "failout"

\* what the engine does with failout when an optimization fails
WriteFailout(sent, c) == sent \cup {Failout(c)}

\* lines 342 and 359: the constraints of a chain, as indices of the schedule
ChainSteps(c, n, pivot) ==
    IF c = "forward" THEN [k \in 1..(n - pivot) |-> pivot + k - 1]
    ELSE Reverse([k \in 1..pivot |-> k - 1])

\* lines 163-165
ChainHandles == {"fdc", "fdl", "fdr"}

ChainScratch == {"current", "log", "restart"}

\* a job that starts the backward chain whatever the forward chain gave
AlwaysContinue(fs) == FALSE

\* a job that also gives up when the forward chain returned one sample
FirstOptFailedOrSingle(fs) == Len(fs) <= 1

\* line 347
FirstOptFailed(fs) == Len(fs) = 0

\* line 202
ThresholdExceeded(newe) == newe[Len(newe)] > emax /\ barrier

\* a chain that drops the sample of the step that exceeds the threshold
CollectUnlessExceeded(list, newe, sample) ==
    IF ThresholdExceeded(newe) THEN list ELSE Append(list, sample)

\* lines 195-196: the sample of a step is kept before the threshold is
\* looked at
Collect(list, newe, sample) == Append(list, sample)

InitJob ==
    /\ IdleSeg /\ IdleCat /\ IdleLayer /\ IdleNet /\ IdleStore /\ IdlePool
    /\ job_kind \in {"react", "stretch"}
    /\ constraints \in 1..MaxSteps
    /\ mtd_index \in 0..(constraints - 1)
    /\ chain = "none"
    /\ steps = << >>
    /\ job_i = 0
    /\ structures = << >>
    /\ energies = << >>
    /\ fstructs = << >>
    /\ fe = << >>
    /\ bstructs = << >>
    /\ be = << >>
    /\ open_fds = {}
    /\ scratch = {}
    /\ calls = << >>
    /\ sentinels = {}
    /\ output = << >>
    /\ job_pc = "start"

\* lines 334-345 and 158-173: the job starts and enters the forward chain
StartForward ==
    /\ job_pc = "start" /\ job_kind = "react"
    /\ chain' = "forward"
    /\ steps' = ChainSteps("forward", constraints, mtd_index)
    /\ job_i' = 0
    /\ structures' = << >>
    /\ energies' = << >>
    /\ open_fds' = ChainHandles
    /\ scratch' = ChainScratch
    /\ job_pc' = "loop"
    /\ UNCHANGED <<job_kind, constraints, mtd_index, fstructs, fe, bstructs,
                   be, calls, sentinels, output>>
    /\ UNCHANGED notJob

\* lines 180-205 with status 0: the log is read, the sample is kept, the
\* threshold is tested
OptimizeStep ==
    /\ job_pc = "loop"
    /\ \E newe \in Logs :
          /\ calls' = Append(calls, [chain |-> chain, step |-> steps[job_i + 1],
                                     status |-> "zero"])
          /\ IF Len(newe) = 0
             THEN \* np.argmin of an empty list raises
                  /\ job_pc' = "raised"
                  /\ UNCHANGED <<structures, energies, job_i>>
             ELSE /\ structures' = Collect(structures, newe,
                                            <<steps[job_i + 1], ArgMin(newe)>>)
                  /\ energies' = Collect(energies, newe, SeqMin(newe))
                  /\ job_i' = job_i + 1
                  /\ job_pc' = IF ThresholdExceeded(newe)
                                  \/ job_i + 1 = Len(steps)
                               THEN "cleanup" ELSE "loop"
    /\ UNCHANGED <<job_kind, constraints, mtd_index, chain, steps, fstructs,
                   fe, bstructs, be, open_fds, scratch, sentinels, output>>
    /\ UNCHANGED notJob

\* lines 180-192 with a status other than 0
OptimizeFails ==
    /\ job_pc = "loop"
    /\ calls' = Append(calls, [chain |-> chain, step |-> steps[job_i + 1],
                               status |-> "nonzero"])
    /\ sentinels' = WriteFailout(sentinels, chain)
    /\ job_pc' = "cleanup"
    /\ UNCHANGED <<job_kind, constraints, mtd_index, chain, steps, job_i,
                   structures, energies, fstructs, fe, bstructs, be,
                   open_fds, scratch, output>>
    /\ UNCHANGED notJob

\* line 189: the engine call raises
OptimizeRaises ==
    /\ job_pc = "loop"
    /\ calls' = Append(calls, [chain |-> chain, step |-> steps[job_i + 1],
                               status |-> "raised"])
    /\ job_pc' = "raised"
    /\ UNCHANGED <<job_kind, constraints, mtd_index, chain, steps, job_i,
                   structures, energies, fstructs, fe, bstructs, be,
                   open_fds, scratch, sentinels, output>>
    /\ UNCHANGED notJob

\* lines 207-214 of the forward chain
ForwardReturns ==
    /\ job_pc = "cleanup" /\ chain = "forward"
    /\ open_fds' = open_fds \ ChainHandles
    /\ scratch' = scratch \ ChainScratch
    /\ fstructs' = structures
    /\ fe' = energies
    /\ chain' = "none"
    /\ job_pc' = "forward_done"
    /\ UNCHANGED <<job_kind, constraints, mtd_index, steps, job_i,
                   structures, energies, bstructs, be, calls, sentinels,
                   output>>
    /\ UNCHANGED notJob

\* lines 347-349
FirstOptFailedReturn ==
    /\ job_pc = "forward_done"
    /\ FirstOptFailed(fstructs)
    /\ job_pc' = "returned"
    /\ UNCHANGED <<job_kind, constraints, mtd_index, chain, steps, job_i,
                   structures, energies, fstructs, fe, bstructs, be,
                   open_fds, scratch, calls, sentinels, output>>
    /\ UNCHANGED notJob

\* lines 353-362 and 162-173: the backward chain is entered
StartBackward ==
    /\ job_pc = "forward_done"
    /\ ~FirstOptFailed(fstructs)
    /\ mtd_index > 0
    /\ chain' = "backward"
    /\ steps' = ChainSteps("backward", constraints, mtd_index)
    /\ job_i' = 0
    /\ structures' = << >>
    /\ energies' = << >>
    /\ open_fds' = ChainHandles
    /\ scratch' = ChainScratch
    /\ job_pc' = "loop"
    /\ UNCHANGED <<job_kind, constraints, mtd_index, fstructs, fe, bstructs,
                   be, calls, sentinels, output>>
    /\ UNCHANGED notJob

\* lines 353-362 and 158-160: there is no constraint before the pivot
NoBackward ==
    /\ job_pc = "forward_done"
    /\ ~FirstOptFailed(fstructs)
    /\ mtd_index = 0
    /\ bstructs' = << >>
    /\ be' = << >>
    /\ job_pc' = "backward_done"
    /\ UNCHANGED <<job_kind, constraints, mtd_index, chain, steps, job_i,
                   structures, energies, fstructs, fe, open_fds, scratch,
                   calls, sentinels, output>>
    /\ UNCHANGED notJob

\* lines 207-214 of the backward chain
BackwardReturns ==
    /\ job_pc = "cleanup" /\ chain = "backward"
    /\ open_fds' = open_fds \ ChainHandles
    /\ scratch' = scratch \ ChainScratch
    /\ bstructs' = structures
    /\ be' = energies
    /\ chain' = "none"
    /\ job_pc' = "backward_done"
    /\ UNCHANGED <<job_kind, constraints, mtd_index, steps, job_i,
                   structures, energies, fstructs, fe, calls, sentinels,
                   output>>
    /\ UNCHANGED notJob

\* a stitching that leaves the backward list in collection order
StitchUnreversed(b, f) == b \o f

\* lines 366-367: bstructs[::-1] + fstructs, be[::-1] + fe
Stitch(b, f) == Reverse(b) \o f

\* lines 365-368 and dump_succ_opt with split=False
DumpSuccOpt ==
    /\ job_pc = "backward_done"
    /\ output' = <<[structures |-> Stitch(bstructs, fstructs),
                    energies |-> Stitch(be, fe)]>>
    /\ job_pc' = "done"
    /\ UNCHANGED <<job_kind, constraints, mtd_index, chain, steps, job_i,
                   structures, energies, fstructs, fe, bstructs, be,
                   open_fds, scratch, calls, sentinels>>
    /\ UNCHANGED notJob

\* stretch, lines 76-80
StretchEnter ==
    /\ job_pc = "start" /\ job_kind = "stretch"
    /\ chain' = "stretch"
    /\ open_fds' = {"fdc"}
    /\ scratch' = {"current"}
    /\ job_pc' = "scan"
    /\ UNCHANGED <<job_kind, constraints, mtd_index, steps, job_i,
                   structures, energies, fstructs, fe, bstructs, be, calls,
                   sentinels, output>>
    /\ UNCHANGED notJob

\* stretch, lines 82-104: the scan returns with any status, the frames are
\* read, the scratch file is released
StretchScan ==
    /\ job_pc = "scan"
    /\ \E status \in {"zero", "nonzero"} :
          /\ calls' = Append(calls, [chain |-> "stretch", step |-> 0,
                                     status |-> status])
          /\ sentinels' = IF status = "nonzero"
                          THEN WriteFailout(sentinels, "stretch")
                          ELSE sentinels
    /\ \E newe \in Logs :
          /\ structures' = [k \in 1..Len(newe) |-> <<0, k - 1>>]
          /\ energies' = newe
    /\ open_fds' = open_fds \ {"fdc"}
    /\ scratch' = scratch \ {"current"}
    /\ job_pc' = "returned"
    /\ UNCHANGED <<job_kind, constraints, mtd_index, chain, steps, job_i,
                   fstructs, fe, bstructs, be, output>>
    /\ UNCHANGED notJob

\* stretch, lines 94-95: the engine call or the reading of the frames raises
StretchRaises ==
    /\ job_pc = "scan"
    /\ calls' = Append(calls, [chain |-> "stretch", step |-> 0,
                               status |-> "raised"])
    /\ job_pc' = "raised"
    /\ UNCHANGED <<job_kind, constraints, mtd_index, chain, steps, job_i,
                   structures, energies, fstructs, fe, bstructs, be,
                   open_fds, scratch, sentinels, output>>
    /\ UNCHANGED notJob

NextJob ==
    \/ StartForward
    \/ OptimizeStep
    \/ OptimizeFails
    \/ OptimizeRaises
    \/ ForwardReturns
    \/ FirstOptFailedReturn
    \/ StartBackward
    \/ NoBackward
    \/ BackwardReturns
    \/ DumpSuccOpt
    \/ StretchEnter
    \/ StretchScan
    \/ StretchRaises

\* ------------------------------------------ scan jobs in a thread pool
MaxJobs == 2

\* rsearch.py, line 230: the number of worker threads
nthreads == 2

Jobs == 1..MaxJobs

\* names a scratch file can get in xtb.scratchdir
ScratchNames == 1..MaxJobs

NoFile == [content |-> << >>, users |-> {}, absent |-> TRUE]

\* the jobs of a batch are given output folders that differ
OutputFolder(j) == j

EmptyFolder == [initial |-> << >>, initial_backward |-> << >>,
                opt |-> << >>, sentinels |-> {}, users |-> {}]

\* a scratch file under a name that is fixed in advance
MkstempPredictable(files) == {1}

\* tempfile.mkstemp, lines 163-165: a file is made under a name that no
\* file of the directory has (the three files of a chain stand as one)
Mkstemp(files) == {nm \in ScratchNames : files[nm] = NoFile}

\* the structure the engine leaves in its output file: a function of the
\* structure it was started from and of the constraint of the step
Engine(content, step) == Append(content, step)

\* the engine returns a non-zero status
EngineFails(j, step) == fails[j] = step

\* the samples a chain returns when it runs over its steps from the
\* structure start, alone
RECURSIVE ChainAlone(_, _, _, _)
ChainAlone(j, chainSteps, k, start) ==
    IF k > Len(chainSteps) \/ EngineFails(j, chainSteps[k]) THEN << >>
    ELSE <<Engine(start, chainSteps[k])>>
         \o ChainAlone(j, chainSteps, k + 1, Engine(start, chainSteps[k]))

\* the trajectory job j writes when it is the only job; << >> when it
\* writes none
Alone(j) ==
    LET f == ChainAlone(j, ChainSteps("forward", pool_n, pool_pivot), 1, <<j>>)
    IN IF FirstOptFailed(f) THEN << >>
       ELSE <<Stitch(ChainAlone(j, ChainSteps("backward", pool_n, pool_pivot),
                                1, f[1]), f)>>

Running == {j \in Jobs : p_pc[j] \notin {"queued", "done", "returned"}}

InitPool ==
    /\ IdleSeg /\ IdleCat /\ IdleLayer /\ IdleNet /\ IdleStore /\ IdleJob
    /\ pool_n \in 1..MaxSteps
    /\ pool_pivot \in 0..(pool_n - 1)
    /\ fails \in [Jobs -> -1..(pool_n - 1)]
    /\ p_pc = [j \in Jobs |-> "queued"]
    /\ p_chain = [j \in Jobs |-> "none"]
    /\ p_i = [j \in Jobs |-> 0]
    /\ p_cur = [j \in Jobs |-> 0]
    /\ p_structs = [j \in Jobs |-> << >>]
    /\ p_fstructs = [j \in Jobs |-> << >>]
    /\ p_bstructs = [j \in Jobs |-> << >>]
    /\ sfiles = [nm \in ScratchNames |-> NoFile]
    /\ ofiles = [f \in Jobs |-> EmptyFolder]

\* a worker thread takes the next job of the queue; react_job, lines
\* 334-337: the folder is made and initial.xyz is written
PoolStart(j) ==
    /\ p_pc[j] = "queued"
    /\ \A i \in 1..(j - 1) : p_pc[i] # "queued"
    /\ Cardinality(Running) < nthreads
    /\ ofiles' = [ofiles EXCEPT ![OutputFolder(j)] =
                     [@ EXCEPT !.initial = <<j>>, !.users = @ \cup {j}]]
    /\ p_chain' = [p_chain EXCEPT ![j] = "forward"]
    /\ p_pc' = [p_pc EXCEPT ![j] = "enter"]
    /\ UNCHANGED <<pool_n, pool_pivot, fails, p_i, p_cur, p_structs,
                   p_fstructs, p_bstructs, sfiles>>
    /\ UNCHANGED notPool

\* successive_optimization, lines 162-170: the scratch file is made and the
\* initial structure of the chain is copied into it
PoolEnter(j) ==
    /\ p_pc[j] = "enter"
    /\ ChainSteps(p_chain[j], pool_n, pool_pivot) # << >>
    /\ \E nm \in Mkstemp(sfiles) :
          /\ p_cur' = [p_cur EXCEPT ![j] = nm]
          /\ sfiles' = [sfiles EXCEPT ![nm] =
                [content |-> IF p_chain[j] = "forward"
                             THEN ofiles[OutputFolder(j)].initial
                             ELSE ofiles[OutputFolder(j)].initial_backward,
                 users |-> sfiles[nm].users \cup {j}]]
    /\ ofiles' = [ofiles EXCEPT ![OutputFolder(j)].users = @ \cup {j}]
    /\ p_i' = [p_i EXCEPT ![j] = 0]
    /\ p_structs' = [p_structs EXCEPT ![j] = << >>]
    /\ p_pc' = [p_pc EXCEPT ![j] = "loop"]
    /\ UNCHANGED <<pool_n, pool_pivot, fails, p_chain, p_fstructs,
                   p_bstructs>>
    /\ UNCHANGED notPool

\* successive_optimization, lines 158-160: the backward chain of a job
\* whose pivot is the first constraint has nothing to do
PoolEnterEmpty(j) ==
    /\ p_pc[j] = "enter"
    /\ ChainSteps(p_chain[j], pool_n, pool_pivot) = << >>
    /\ p_bstructs' = [p_bstructs EXCEPT ![j] = << >>]
    /\ p_pc' = [p_pc EXCEPT ![j] = "dump"]
    /\ UNCHANGED <<pool_n, pool_pivot, fails, p_chain, p_i, p_cur, p_structs,
                   p_fstructs, sfiles, ofiles>>
    /\ UNCHANGED notPool

\* successive_optimization, lines 180-205: the engine runs on the scratch
\* file of the job and the sample is read back
PoolOptimize(j) ==
    /\ p_pc[j] = "loop"
    /\ LET step == ChainSteps(p_chain[j], pool_n, pool_pivot)[p_i[j] + 1]
           nm == p_cur[j]
           new == Engine(sfiles[nm].content, step)
       IN IF EngineFails(j, step)
          THEN /\ ofiles' = [ofiles EXCEPT ![OutputFolder(j)] =
                               [@ EXCEPT !.sentinels =
                                            WriteFailout(@, p_chain[j]),
                                         !.users = @ \cup {j}]]
               /\ sfiles' = [sfiles EXCEPT ![nm].users = @ \cup {j}]
               /\ p_pc' = [p_pc EXCEPT ![j] = "cleanup"]
               /\ UNCHANGED <<p_structs, p_i>>
          ELSE /\ sfiles' = [sfiles EXCEPT ![nm] =
                               [content |-> new, users |-> @.users \cup {j}]]
               /\ p_structs' = [p_structs EXCEPT ![j] = Append(@, new)]
               /\ p_i' = [p_i EXCEPT ![j] = @ + 1]
               /\ p_pc' = [p_pc EXCEPT ![j] =
                     IF p_i[j] + 1 =
                           Len(ChainSteps(p_chain[j], pool_n, pool_pivot))
                     THEN "cleanup" ELSE "loop"]
               /\ UNCHANGED ofiles
    /\ UNCHANGED <<pool_n, pool_pivot, fails, p_chain, p_cur, p_fstructs,
                   p_bstructs>>
    /\ UNCHANGED notPool

\* lines 207-214 of the forward chain, then react_job, lines 347-354
PoolForwardReturns(j) ==
    /\ p_pc[j] = "cleanup" /\ p_chain[j] = "forward"
    /\ sfiles' = [sfiles EXCEPT ![p_cur[j]] = NoFile]
    /\ p_cur' = [p_cur EXCEPT ![j] = 0]
    /\ p_fstructs' = [p_fstructs EXCEPT ![j] = p_structs[j]]
    /\ IF FirstOptFailed(p_structs[j])
       THEN /\ p_pc' = [p_pc EXCEPT ![j] = "returned"]
            /\ UNCHANGED <<ofiles, p_chain>>
       ELSE /\ ofiles' = [ofiles EXCEPT ![OutputFolder(j)] =
                            [@ EXCEPT !.initial_backward = p_structs[j][1],
                                      !.users = @ \cup {j}]]
            /\ p_chain' = [p_chain EXCEPT ![j] = "backward"]
            /\ p_pc' = [p_pc EXCEPT ![j] = "enter"]
    /\ UNCHANGED <<pool_n, pool_pivot, fails, p_i, p_structs, p_bstructs>>
    /\ UNCHANGED notPool

\* lines 207-214 of the backward chain
PoolBackwardReturns(j) ==
    /\ p_pc[j] = "cleanup" /\ p_chain[j] = "backward"
    /\ sfiles' = [sfiles EXCEPT ![p_cur[j]] = NoFile]
    /\ p_cur' = [p_cur EXCEPT ![j] = 0]
    /\ p_bstructs' = [p_bstructs EXCEPT ![j] = p_structs[j]]
    /\ p_pc' = [p_pc EXCEPT ![j] = "dump"]
    /\ UNCHANGED <<pool_n, pool_pivot, fails, p_chain, p_i, p_structs,
                   p_fstructs, ofiles>>
    /\ UNCHANGED notPool

\* react_job, lines 365-368: opt.xyz is written in the folder of the job
PoolDump(j) ==
    /\ p_pc[j] = "dump"
    /\ ofiles' = [ofiles EXCEPT ![OutputFolder(j)] =
                     [@ EXCEPT !.opt = <<Stitch(p_bstructs[j], p_fstructs[j])>>,
                               !.users = @ \cup {j}]]
    /\ p_pc' = [p_pc EXCEPT ![j] = "done"]
    /\ UNCHANGED <<pool_n, pool_pivot, fails, p_chain, p_i, p_cur, p_structs,
                   p_fstructs, p_bstructs, sfiles>>
    /\ UNCHANGED notPool

NextPool ==
    \/ \E j \in Jobs : PoolStart(j)
    \/ \E j \in Jobs : PoolEnter(j)
    \/ \E j \in Jobs : PoolEnterEmpty(j)
    \/ \E j \in Jobs : PoolOptimize(j)
    \/ \E j \in Jobs : PoolForwardReturns(j)
    \/ \E j \in Jobs : PoolBackwardReturns(j)
    \/ \E j \in Jobs : PoolDump(j)

\* ------------------------------------------------- postprocess_reaction
\* the scan of lines 36-42: start a new region at every change of smiles
RECURSIVE RegionScan(_, _, _, _, _)
RegionScan(sm, si, rstart, last, acc) ==
    IF si >= Len(sm) THEN Append(acc, <<rstart, Len(sm)>>)
    ELSE IF sm[si + 1] = last
         THEN RegionScan(sm, si + 1, rstart, last, acc)
         ELSE RegionScan(sm, si + 1, si, sm[si + 1],
                         Append(acc, <<rstart, si>>))

Regions(sm) == RegionScan(sm, 0, 0, sm[1], << >>)

\* a region minimum that takes the last frame of lowest energy
RegionMinLast(en, r) ==
    LET s == Slice(en, r[1], r[2])
    IN (Len(s) - 1 - ArgMin(Reverse(s))) + r[1]

\* lines 48-56: the region's minimum and its neighbour test
RegionMin(en, r) == ArgMin(Slice(en, r[1], r[2])) + r[1]

\* a neighbour test that also rejects an equal-energy neighbour
IsLocalMinStrict(en, imin) ==
    /\ (imin < Len(en) - 1) => en[imin + 1] < en[imin + 2]
    /\ (imin > 0) => en[imin + 1] < en[imin]

\* a neighbour test that asks for a neighbour on both sides
IsLocalMinInterior(en, imin) ==
    /\ imin < Len(en) - 1 /\ ~(en[imin + 1] > en[imin + 2])
    /\ imin > 0 /\ ~(en[imin + 1] > en[imin])

IsLocalMin(en, imin) ==
    /\ (imin < Len(en) - 1) => ~(en[imin + 1] > en[imin + 2])
    /\ (imin > 0) => ~(en[imin + 1] > en[imin])

RECURSIVE AcceptedMinima(_, _, _)
AcceptedMinima(en, regs, k) ==
    IF k > Len(regs) THEN << >>
    ELSE LET imin == RegionMin(en, regs[k])
         IN (IF IsLocalMin(en, imin) THEN <<imin>> ELSE << >>)
            \o AcceptedMinima(en, regs, k + 1)

\* a maximum that is not shifted back to an index of the trajectory
MaxBetweenNoOffset(en, a, b) == ArgMax(Slice(en, a, b))

\* line 67: the maximum between two consecutive minima
MaxBetween(en, a, b) == ArgMax(Slice(en, a, b)) + a

\* a point list that inserts the maximum without comparing it with the
\* left minimum
RECURSIVE PointListNoLeftTest(_, _, _)
PointListNoLeftTest(en, mins, k) ==
    IF k > Len(mins) THEN << >>
    ELSE LET imax == MaxBetween(en, mins[k - 1], mins[k])
         IN (IF imax # mins[k]
             THEN << <<imax, FALSE>> >> ELSE << >>)
            \o << <<mins[k], TRUE>> >>
            \o PointListNoLeftTest(en, mins, k + 1)

\* lines 62-73: each element is <<index, stable flag>>
RECURSIVE PointList(_, _, _)
PointList(en, mins, k) ==
    IF k > Len(mins) THEN << >>
    ELSE LET imax == MaxBetween(en, mins[k - 1], mins[k])
         IN (IF imax # mins[k] /\ imax # mins[k - 1]
             THEN << <<imax, FALSE>> >> ELSE << >>)
            \o << <<mins[k], TRUE>> >>
            \o PointList(en, mins, k + 1)

\* a point list that does not start with the first minimum
PointsWithoutFirst(en, mins) == PointList(en, mins, 2)

Points(en, mins) == << <<mins[1], TRUE>> >> \o PointList(en, mins, 2)

InitSeg ==
    /\ IdleStore
    /\ IdleJob
    /\ IdlePool
    /\ IdleNet
    /\ IdleCat
    /\ IdleLayer
    /\ \E n \in 1..MaxFrames :
          /\ smiles \in [1..n -> StereoIds]
          /\ E \in [1..n -> Energies]
    /\ regions = << >>
    /\ imins = << >>
    /\ ipots = << >>
    /\ stable = << >>
    /\ out = NoRecord
    /\ seg_pc = "regions"

\* the trajectory of seven frames with energies 0.0, 0.10, 0.05, 0.20,
\* 0.04, 0.30, 0.02 (in hundredths) and one identifier per frame that
\* has no stereo centre, so both calls of traj2smiles give the same list
ScenarioE == <<0, 10, 5, 20, 4, 30, 2>>

ScenarioIds == <<"A", "A", "A", "B", "B", "C", "C">>

\* that trajectory and the ones that differ from it in one energy
ScenarioInputs ==
    {[ScenarioE EXCEPT ![k] = v] : k \in 1..Len(ScenarioE),
                                   v \in Range(ScenarioE)}

InitScenario ==
    /\ IdleStore
    /\ IdleJob
    /\ IdlePool
    /\ IdleNet
    /\ IdleCat
    /\ IdleLayer
    /\ smiles = ScenarioIds
    /\ E \in ScenarioInputs
    /\ regions = << >>
    /\ imins = << >>
    /\ ipots = << >>
    /\ stable = << >>
    /\ out = NoRecord
    /\ seg_pc = "regions"

DetectRegions ==
    /\ seg_pc = "regions"
    /\ regions' = Regions(smiles)
    /\ seg_pc' = "minima"
    /\ UNCHANGED <<smiles, E, imins, ipots, stable, out>>
    /\ UNCHANGED notSeg

FindMinima ==
    /\ seg_pc = "minima"
    /\ imins' = AcceptedMinima(E, regions, 1)
    /\ seg_pc' = "points"
    /\ UNCHANGED <<smiles, E, regions, ipots, stable, out>>
    /\ UNCHANGED notSeg

\* imins[0] of an empty list raises IndexError
BuildPoints ==
    /\ seg_pc = "points"
    /\ IF imins = << >>
       THEN /\ seg_pc' = "raised"
            /\ UNCHANGED <<ipots, stable>>
       ELSE /\ ipots' = [k \in 1..Len(Points(E, imins)) |-> Points(E, imins)[k][1]]
            /\ stable' = [k \in 1..Len(Points(E, imins)) |-> Points(E, imins)[k][2]]
            /\ seg_pc' = "optimize"
    /\ UNCHANGED <<smiles, E, regions, imins, out>>
    /\ UNCHANGED notSeg

\* one turn of the loop of lines 79-103; a stable point is relaxed again by
\* the engine and read back, a transition point keeps the scanned values
OptimizePoint ==
    /\ seg_pc = "optimize"
    /\ Len(out.E) < Len(ipots)
    /\ LET i == Len(out.E) + 1
           sindex == ipots[i]
       IN IF stable[i]
          THEN \E s \in StereoIds, eprod \in Relaxed(E[sindex + 1]) :
                  out' = [out EXCEPT !.E = Append(@, eprod),
                                     !.SMILES_c = Append(@, s),
                                     !.SMILES_i = Append(@, NonStereo(s))]
          ELSE out' = [out EXCEPT !.E = Append(@, E[sindex + 1]),
                                  !.SMILES_c = Append(@, smiles[sindex + 1]),
                                  !.SMILES_i = Append(@, NonStereo(smiles[sindex + 1]))]
    /\ UNCHANGED <<smiles, E, regions, imins, ipots, stable, seg_pc>>
    /\ UNCHANGED notSeg

\* lines 105-120
WriteRecord ==
    /\ seg_pc = "optimize"
    /\ Len(out.E) = Len(ipots)
    /\ out' = [out EXCEPT !.is_stable = stable, !.stretch_points = ipots]
    /\ seg_pc' = "done"
    /\ UNCHANGED <<smiles, E, regions, imins, ipots, stable>>
    /\ UNCHANGED notSeg

NextSeg ==
    \/ DetectRegions
    \/ FindMinima
    \/ BuildPoints
    \/ OptimizePoint
    \/ WriteRecord

\* -------------------------------------------------------- specifications
SpecSeg == InitSeg /\ [][NextSeg]_vars

SpecCat == InitCat /\ [][NextCat]_vars

SpecLayer == InitLayer /\ [][NextLayer]_vars

SpecNet == InitNet /\ [][NextNet]_vars

SpecStore == InitStore /\ [][NextStore]_vars

SpecJob == InitJob /\ [][NextJob]_vars

SpecScenario == InitScenario /\ [][NextSeg]_vars

SpecPool == InitPool /\ [][NextPool]_vars

\* ------------------------------------------------- network properties
\* C2 as stated: within one run, for any seed list and any pathways, no
\* (reactant, product) pair has two reaction ids, no id is given to two
\* pairs, and the ids are 1, 2, 3, ... in the order of discovery.
C2_ReactionIdsUnique ==
    \A a, b \in 1..Len(final_reactions) :
        /\ final_reactions[a].reaction_id = a
        /\ (/\ final_reactions[a].from = final_reactions[b].from
            /\ final_reactions[a].to = final_reactions[b].to) =>
              final_reactions[a].reaction_id = final_reactions[b].reaction_id
        /\ final_reactions[a].reaction_id = final_reactions[b].reaction_id =>
              /\ final_reactions[a].from = final_reactions[b].from
              /\ final_reactions[a].to = final_reactions[b].to

\* -------------------------------------------- edge generation properties
SetMax(S) == CHOOSE x \in S : \A y \in S : y <= x

\* the recorded energies at the positions strictly between i and j
Between(row, i, j) ==
    {row.E[k + 1] : k \in {m \in 0..(Len(row.E) - 1) :
                              (i < m /\ m < j) \/ (j < m /\ m < i)}}

\* the edges of the table that go from point i to point j of a row
EdgesOf(row, i, j) ==
    {e \in 1..Len(layer) :
        /\ layer[e].folder = row.folder
        /\ layer[e].i_R = row.stretch_points[i + 1]
        /\ layer[e].i_P = row.stretch_points[j + 1]}

\* C1: for the reactant occurrence i of a pathway (the position
\* reaction_network_layer takes for the reactant) and a stable, non-excluded
\* occurrence j # i, an edge i -> j is emitted iff the maximum energy at the
\* positions strictly between i and j exceeds both E[i] and E[j] (none when
\* nothing lies between); its E_TS is that maximum; forward and backward
\* alike, and no other edge is emitted.
C1_EdgeIffBarrier ==
    layer_pc = "done" =>
        \A r \in 1..Len(pathways) :
            LET row == pathways[r]
                n == Len(row.E)
            IN IF layer_reactant \notin Range(row.smiles)
               THEN \A e \in 1..Len(layer) : layer[e].folder # row.folder
               ELSE LET i == IndexOf(row.smiles, layer_reactant)
                    IN \A j \in 0..(n - 1) :
                         LET btw == Between(row, i, j)
                             eligible == /\ j # i
                                         /\ row.is_stable[j + 1]
                                         /\ row.smiles[j + 1] \notin layer_exclude
                             hasBarrier == /\ btw # {}
                                           /\ SetMax(btw) > row.E[i + 1]
                                           /\ SetMax(btw) > row.E[j + 1]
                         IN /\ Cardinality(EdgesOf(row, i, j)) =
                                  (IF eligible /\ hasBarrier THEN 1 ELSE 0)
                            /\ \A e \in EdgesOf(row, i, j) :
                                  /\ layer[e].E_TS = SetMax(btw)
                                  /\ layer[e].to = row.smiles[j + 1]
                            /\ \A e \in 1..Len(layer) :
                                  layer[e].folder = row.folder =>
                                     layer[e].i_R = row.stretch_points[i + 1]

\* a call that emitted a backward edge over two positions and no other
\* edge, the reactant being the last point of the pathway
C1_Witness ==
    /\ layer_pc = "done"
    /\ Len(layer) = 1
    /\ layer[1].i_R = 3 /\ layer[1].i_P = 0
    /\ layer[1].E_TS = 2
    /\ pathways[1].is_stable[2]
    /\ pathways[1].smiles[2] \notin layer_exclude

\* ------------------------------------------------- catalog properties
\* the stable points of the table, as <<row, point>> (row from 1, point from 0)
StableOccurrences ==
    {o \in (1..Len(pathways)) \X (0..MaxFrames) :
        /\ o[2] < Len(pathways[o[1]].is_stable)
        /\ pathways[o[1]].is_stable[o[2] + 1]}

OccId(o) == pathways[o[1]].smiles[o[2] + 1]

OccE(o) == pathways[o[1]].E[o[2] + 1]

\* the stable points get_species_table has folded so far
Folded ==
    {o \in StableOccurrences :
        \/ o[1] - 1 < cat_row
        \/ o[1] - 1 = cat_row /\ o[2] < cat_k}

\* the entry kept for every identifier folded so far has the least energy
\* of its occurrences, and is that occurrence when only one has it
KeepsMinimum ==
    cat_pc \in {"fold", "built", "exit"} =>
        \A smi \in CatIds :
            LET occs == {o \in Folded : OccId(o) = smi}
            IN /\ smi \in DOMAIN species <=> occs # {}
               /\ occs # {} =>
                     /\ \A o \in occs : species[smi].E <= OccE(o)
                     /\ \E o \in occs : species[smi].E = OccE(o)
                     /\ \A o \in occs :
                           (\A q \in occs \ {o} : OccE(o) < OccE(q)) =>
                              /\ species[smi].file =
                                    <<pathways[o[1]].folder,
                                      pathways[o[1]].stretch_points[o[2] + 1]>>
                              /\ species[smi].position =
                                    pathways[o[1]].stretch_points[o[2] + 1]

\* the finished dictionary has the energies of the one built from the rows
\* taken in the opposite order
OrderFree ==
    cat_pc \in {"built", "exit"} =>
        LET other == SpeciesTable(Reverse(pathways))
        IN /\ DOMAIN other = DOMAIN species
           /\ \A smi \in DOMAIN species : other[smi].E = species[smi].E

\* an entry, once stored, stays and its energy never goes up
NeverIncreases ==
    \A smi \in DOMAIN species :
        /\ smi \in DOMAIN species'
        /\ species'[smi].E <= species[smi].E

C8_EmptyCatalogExitsNonZero ==
    (cat_pc \in {"built", "exit"} /\ StableOccurrences = {}) =>
        /\ cat_pc = "exit"
        /\ exit_status # << >>
        /\ exit_status[1] # 0

\* ---------------------------------------------- segmentation properties
NFrames == Len(E)

\* C3: for every non-empty trajectory the stretch-point indices of the
\* pathway record are strictly increasing and each lies in 0..N-1.
C3_StretchPointsIncreasing ==
    seg_pc \in {"optimize", "done"} =>
        /\ ipots # << >>
        /\ \A k \in 1..Len(ipots) : ipots[k] \in 0..(NFrames - 1)
        /\ \A k \in 1..(Len(ipots) - 1) : ipots[k] < ipots[k + 1]
        /\ seg_pc = "done" => out.stretch_points = ipots

\* a finished record with a transition point between two minima
C3_Witness ==
    /\ seg_pc = "done"
    /\ out.is_stable = <<TRUE, FALSE, TRUE>>
    /\ out.stretch_points = <<0, 1, 2>>

\* C4 as stated: the stretch points of every record contain trajectory
\* index 0 and trajectory index N-1.
C4_EndpointsAlwaysIncluded ==
    seg_pc = "done" =>
        /\ 0 \in Range(out.stretch_points)
        /\ (NFrames - 1) \in Range(out.stretch_points)

\* C4 amended: index 0 is a stretch point exactly when frame 0 is an
\* accepted minimum (no frame of the first region is lower and frame 1 is
\* not lower), index N-1 exactly when frame N-1 is an accepted minimum
\* (every other frame of the last region is higher and frame N-2 is not
\* lower); the list always starts and ends with a stable point.
C4_EndpointsIncludedIffMinima ==
    seg_pc = "done" =>
        LET sp == out.stretch_points
            firstEnd == regions[1][2]
            lastStart == regions[Len(regions)][1]
        IN /\ 0 \in Range(sp) <=>
                  /\ \A k \in 0..(firstEnd - 1) : E[1] <= E[k + 1]
                  /\ NFrames > 1 => E[1] <= E[2]
           /\ (NFrames - 1) \in Range(sp) <=>
                  /\ \A k \in lastStart..(NFrames - 2) : E[NFrames] < E[k + 1]
                  /\ NFrames > 1 => E[NFrames] <= E[NFrames - 1]
           /\ out.is_stable[1] /\ out.is_stable[Len(sp)]

\* a finished record of a 3-frame trajectory that holds index 0 and not
\* index 2
C4_Witness ==
    /\ seg_pc = "done"
    /\ NFrames = 3
    /\ 0 \in Range(out.stretch_points)
    /\ 2 \notin Range(out.stretch_points)

\* --------------------------------------------------------------------
\* Properties of the result store
\* --------------------------------------------------------------------

\* the folders a run without a snapshot parses
FullRun(d) == {p \in Globbed(d) : Readable(d[p])}

\* C6: a run with restart over a snapshot that an earlier run wrote, the
\* folders on disk being the same throughout, returns one row for every
\* folder that a full run parses and no other row, each row holding the
\* path of its folder, and leaves the snapshot as it found it.
C6_RestartIdempotent ==
    (store_pc = "returned" /\ restart /\ snap_before.exists /\ changes = 0) =>
        /\ Index(data) = FullRun(disk)
        /\ Len(data) = Cardinality(FullRun(disk))
        /\ \A k \in 1..Len(data) : data[k].folder = data[k].index
        /\ snapshot = snap_before

\* a restart run over a snapshot, with one folder parsed before and one
\* folder that fails again
C6_Witness ==
    /\ store_pc = "returned" /\ restart /\ snap_before.exists /\ changes = 0
    /\ Len(data) >= 1
    /\ Len(failed) >= 1

\* C9: no row of the table a run returns belongs to a folder that holds
\* FAILED_FORWARD or FAILED_BACKWARD when the run reads it, whether or
\* not the run starts from a snapshot.
C9_SentinelFolderAbsent ==
    store_pc = "returned" =>
        \A k \in 1..Len(data) : ~HasSentinel(disk[data[k].index])

\* --------------------------------------------------------------------
\* Properties of a scan job
\* --------------------------------------------------------------------

\* the job or the call is over: it returned or an exception left it
Exited == job_pc \in {"returned", "done", "raised"}

\* C7: when the first engine invocation of the forward chain returns a
\* status other than zero, the forward chain collects and returns no
\* sample, FAILED_FORWARD is written, the engine is never invoked again
\* (so never for a step of the backward chain), and no trajectory is
\* written.
C7_FirstForwardFailure ==
    (job_kind = "react" /\ Len(calls) >= 1 /\ calls[1].status = "nonzero") =>
        /\ structures = << >> /\ fstructs = << >>
        /\ "FAILED_FORWARD" \in sentinels
        /\ \A k \in 1..Len(calls) : calls[k].chain # "backward"
        /\ Len(calls) = 1
        /\ output = << >>
        /\ job_pc \in {"cleanup", "forward_done", "returned"}

\* the job has returned after a failure of the first forward step, with
\* constraints before the pivot that a backward chain would have run
C7_Witness ==
    /\ job_kind = "react" /\ job_pc = "returned"
    /\ Len(calls) = 1 /\ calls[1].status = "nonzero"
    /\ mtd_index > 0

\* C10: once a relaxation chain or a stretch call is over, by return or by
\* exception, no file handle it opened is open and no scratch file it made
\* exists.
C10_ScratchReleased ==
    Exited => (open_fds = {} /\ scratch = {})

\* C11: for the trajectory of seven frames with energies 0.0, 0.10, 0.05,
\* 0.20, 0.04, 0.30, 0.02 and identifiers A A A B B C C, segmentation gives
\* the regions [0,3), [3,5), [5,7), the minima 0, 4, 6, and the stretch
\* points 0, 3, 4, 5, 6 flagged stable, transition, stable, transition,
\* stable; it does not raise, and the record it writes holds that list.
C11_ScenarioSegmentation ==
    (smiles = ScenarioIds /\ E = ScenarioE) =>
        /\ seg_pc # "raised"
        /\ seg_pc # "regions" =>
              regions = << <<0, 3>>, <<3, 5>>, <<5, 7>> >>
        /\ seg_pc \in {"points", "optimize", "done"} => imins = <<0, 4, 6>>
        /\ seg_pc \in {"optimize", "done"} =>
              /\ ipots = <<0, 3, 4, 5, 6>>
              /\ stable = <<TRUE, FALSE, TRUE, FALSE, TRUE>>
        /\ seg_pc = "done" =>
              /\ out.stretch_points = <<0, 3, 4, 5, 6>>
              /\ out.is_stable = <<TRUE, FALSE, TRUE, FALSE, TRUE>>

\* the record of that trajectory has been written
C11_Witness ==
    /\ smiles = ScenarioIds /\ E = ScenarioE
    /\ seg_pc = "done"
    /\ Len(out.E) = 5

\* C12: the trajectory a job writes has one frame per collected sample,
\* the backward samples in reverse collection order followed by the
\* forward samples in collection order, the energies stitched the same
\* way; frame k (from 0) is the sample of schedule step
\* mtd_index - nb + k, nb being the number of backward samples.
C12_StitchedTrajectory ==
    output # << >> =>
        LET o == output[1]
            nb == Len(bstructs)
            nf == Len(fstructs)
        IN /\ Len(o.structures) = nb + nf
           /\ Len(o.energies) = nb + nf
           /\ \A k \in 0..(nb + nf - 1) :
                 /\ o.structures[k + 1][1] = mtd_index - nb + k
                 /\ k < nb =>
                       /\ o.structures[k + 1] = bstructs[nb - k]
                       /\ o.energies[k + 1] = be[nb - k]
                 /\ k >= nb =>
                       /\ o.structures[k + 1] = fstructs[k - nb + 1]
                       /\ o.energies[k + 1] = fe[k - nb + 1]

\* a trajectory written from two backward samples of different energy and
\* a forward sample
C12_Witness ==
    /\ output # << >>
    /\ Len(bstructs) = 2 /\ Len(fstructs) >= 1
    /\ be[1] # be[2]

\* C13: when network building ends, every seed that is in the species
\* table has been expanded, whether or not another seed is missing from
\* the table, and the reactions found are returned.
C13_OtherSeedsExpanded ==
    net_pc \in {"done", "raised"} =>
        /\ \A k \in 1..Len(reactants) :
              reactants[k] \in DOMAIN species => reactants[k] \in Range(done)
        /\ final_reactions # << >> => net_pc = "done"

\* C14: after a run with restart, the folder field of every returned
\* record is the path under which the folder the record was computed
\* from is found on disk now, also for the records taken from the
\* snapshot.
C14_FolderFieldCurrent ==
    (store_pc = "returned" /\ restart) =>
        \A k \in 1..Len(data) :
           \E p \in Globbed(disk) :
              disk[p].uid = data[k].uid /\ data[k].folder = p

\* C15: a run of read_all_reactions is not aborted by what it finds in one
\* folder (no record, an unreadable record, a sentinel, structure files
\* the reparser raises on): it returns, and the table holds the record of
\* every folder that has a readable record and no sentinel.
C15_FolderFailureIsolated ==
    store_pc \in {"returned", "raised"} =>
        /\ store_pc = "returned"
        /\ \A p \in FullRun(disk) : p \in Index(data)

\* the engine invocations of the chain that runs
ChainCalls == SelectSeq(calls, LAMBDA c : c.chain = chain)

\* C18: in a chain that has left its loop without an exception, a step
\* was followed by the next step of the schedule exactly when it was not
\* the last step, the engine returned status zero, and the energy recorded
\* for the step (the minimum of its log) did not exceed the threshold.
C18_StopIffRepresentativeExceeds ==
    (job_kind = "react" /\ job_pc = "cleanup") =>
        LET m == Len(ChainCalls)
        IN /\ \A k \in 1..(m - 1) :
                 /\ ChainCalls[k].status = "zero"
                 /\ energies[k] <= emax
           /\ m < Len(steps) =>
                 \/ ChainCalls[m].status = "nonzero"
                 \/ /\ Len(energies) = m
                    /\ energies[m] > emax

C20_RegionsByNonStereoId ==
    seg_pc # "regions" =>
        \A k \in 1..(NFrames - 1) :
           (\E r \in 1..Len(regions) : regions[r][1] = k)
              <=> NonStereo(smiles[k + 1]) # NonStereo(smiles[k])

\* --------------------------------------------------------------------
\* Properties of concurrent scan jobs
\* --------------------------------------------------------------------

\* C17: however the jobs of a batch interleave, every scratch file and
\* every output folder is read and written by one job only, and the
\* trajectory a job has written, or its having written none, is what the
\* job gives when it runs alone.
C17_JobsIsolated ==
    /\ \A nm \in ScratchNames : Cardinality(sfiles[nm].users) <= 1
    /\ \A f \in Jobs : ofiles[f].users \subseteq {f}
    /\ \A j \in Jobs :
          /\ p_pc[j] = "done" => ofiles[OutputFolder(j)].opt = Alone(j)
          /\ p_pc[j] = "returned" =>
                /\ ofiles[OutputFolder(j)].opt = << >>
                /\ Alone(j) = << >>

\* the jobs of the batch have all written a trajectory of three frames,
\* each its own
C17_Witness ==
    /\ \A j \in Jobs : p_pc[j] = "done"
    /\ \A j \in Jobs : Len(ofiles[OutputFolder(j)].opt[1]) = 3
    /\ ofiles[1].opt # ofiles[2].opt

\* --------------------------------------------------------------------
\* Properties of the accepted minima and of the point list
\* --------------------------------------------------------------------

\* the first frame of lowest energy of region r
Candidate(r) ==
    SetMin({i \in r[1]..(r[2] - 1) :
               \A k \in r[1]..(r[2] - 1) : E[i + 1] <= E[k + 1]})

\* no neighbour frame of frame c, in the whole trajectory, is strictly lower
NoLowerNeighbour(c) ==
    /\ c > 0 => E[c] >= E[c + 1]
    /\ c < NFrames - 1 => E[c + 2] >= E[c + 1]

\* C21: the accepted minima are, region by region and in order, the first
\* frame of lowest energy of the region when no neighbour frame of it is
\* strictly lower, and nothing for the region otherwise (the list is not
\* changed once the minima have been found).
C21_OneMinimumPerRegion ==
    seg_pc = "points" =>
        /\ \A a, b \in 1..Len(imins) : a < b => imins[a] < imins[b]
        /\ \A r \in 1..Len(regions) :
              {imins[k] : k \in 1..Len(imins)}
                 \cap (regions[r][1]..(regions[r][2] - 1))
              = IF NoLowerNeighbour(Candidate(regions[r]))
                THEN {Candidate(regions[r])} ELSE {}

\* a trajectory of two regions: in one the frame of lowest energy is
\* rejected, in the other it is accepted next to a frame of equal energy
C21_Witness ==
    /\ seg_pc = "points"
    /\ Len(regions) = 2
    /\ Len(imins) = 1
    /\ \E k \in 1..NFrames :
          /\ k # imins[1] + 1
          /\ (k = imins[1] \/ k = imins[1] + 2)
          /\ E[k] = E[imins[1] + 1]

\* C22: between two consecutive accepted minima a < b of a finished record
\* a transition point stands exactly when there is a frame between them,
\* and it is the first frame of highest energy among a+1..b-1.
C22_TransitionFromOpenInterval ==
    seg_pc \in {"optimize", "done"} =>
        \A k \in 1..(Len(imins) - 1) :
           LET a == imins[k]
               b == imins[k + 1]
               between == {ipots[x] : x \in {y \in 1..Len(ipots) :
                                               ~stable[y] /\ a < ipots[y]
                                               /\ ipots[y] < b}}
           IN IF b - a < 2 THEN between = {}
              ELSE between =
                     {SetMin({i \in (a + 1)..(b - 1) :
                                \A j \in (a + 1)..(b - 1) :
                                   E[j + 1] <= E[i + 1]})}

\* C23: every position of a pathway at which the reactant occurs as a
\* stable point is used as a reactant occurrence (an edge leaves it towards
\* every stable, non-excluded position that a barrier separates from it),
\* and no edge leaves a position flagged as a transition.
C23_EveryStableOccurrenceUsed ==
    layer_pc = "done" =>
        \A r \in 1..Len(pathways) :
            LET row == pathways[r]
                n == Len(row.E)
            IN /\ \A p, j \in 0..(n - 1) :
                     LET btw == Between(row, p, j)
                     IN (/\ row.smiles[p + 1] = layer_reactant
                         /\ row.is_stable[p + 1]
                         /\ j # p
                         /\ row.is_stable[j + 1]
                         /\ row.smiles[j + 1] \notin layer_exclude
                         /\ btw # {}
                         /\ SetMax(btw) > row.E[p + 1]
                         /\ SetMax(btw) > row.E[j + 1])
                        => EdgesOf(row, p, j) # {}
               /\ \A e \in 1..Len(layer), p \in 0..(n - 1) :
                     (/\ layer[e].folder = row.folder
                      /\ layer[e].i_R = row.stretch_points[p + 1])
                     => row.is_stable[p + 1]

\* C24: when a species is expanded, no reaction (and so no reaction id) is
\* recorded towards a species that is already done or already waits in
\* the queue.
C24_NoEdgeToDoneOrQueued ==
    [][\A k \in (Len(final_reactions) + 1)..Len(final_reactions') :
          final_reactions'[k].to \notin Range(done) \cup Range(Tail(todo))]_vars

\* C25: no species is expanded twice, and no species that has been
\* expanded waits in the queue.
C25_ExpandedAtMostOnce ==
    /\ \A a, b \in 1..Len(done) : a # b => done[a] # done[b]
    /\ Range(done) \cap Range(todo) = {}

\* C26: for every set of pathways and every seed list the run ends with an
\* empty queue: once the loop has been left nothing waits in the queue.
C26_FrontierEmpties ==
    net_pc \in {"done", "raised"} => todo = << >>

\* a turn for a species without any edge marks it done and neither
\* enqueues anything nor consumes a reaction id
NoEdgeNoEffect ==
    [][(net_pc' = "loop" /\ Len(final_reactions') = Len(final_reactions))
          => /\ done' = Append(done, Head(todo))
             /\ todo' = Tail(todo)
             /\ iden' = iden]_vars

\* every run ends with an empty queue when all the seeds are in the
\* species table
EmptiesWithKnownSeeds ==
    (net_pc \in {"done", "raised"} /\ Range(reactants) \subseteq DOMAIN species)
       => todo = << >>

\* the candidate edges from species a to species b
Candidates(a, b) ==
    LET lay == Layer(pathways, species, a, {})
    IN {lay[e] : e \in RowsTo(lay, b)}

\* C27: the summary row of a reaction reports a candidate edge to its
\* destination that is minimal under the ranking key: the barrier in the
\* pathway-local mode, the transition-state energy in the catalog mode.
C27_RepresentativeIsMinimal ==
    \A k \in 1..Len(final_reactions) :
        LET row == final_reactions[k]
            cand == Candidates(row.from, row.to)
        IN \E best \in cand :
              /\ best.folder = row.best_TS_pathway
              /\ best.i_TS = row.TS_index
              /\ IF reaction_local
                 THEN /\ row.dE_TS = best.barrier
                      /\ row.dE = best.local_dE
                      /\ \A o \in cand : best.barrier <= o.barrier
                 ELSE /\ row.dE_TS = best.E_TS - species[row.from].E
                      /\ row.dE = best.dE
                      /\ \A o \in cand : best.E_TS <= o.E_TS

\* a reaction with two candidate edges, one of the lower barrier and the
\* other of the lower transition-state energy, reported in the local mode
C27_Witness ==
    /\ net_pc = "done"
    /\ reaction_local
    /\ \E k \in 1..Len(final_reactions) :
          \E x, y \in Candidates(final_reactions[k].from, final_reactions[k].to) :
             x.barrier < y.barrier /\ y.E_TS < x.E_TS

\* pairwise distinct seeds
DistinctSeeds ==
    \A a, b \in 1..Len(reactants) : a # b => reactants[a] # reactants[b]

\* C30: with pairwise distinct seeds no reaction leads from a species to
\* itself and, of the two directions between two species, at most one is
\* given a reaction id.
C30_OneDirection ==
    DistinctSeeds =>
        \A a, b \in 1..Len(final_reactions) :
            /\ final_reactions[a].from # final_reactions[a].to
            /\ ~(/\ final_reactions[a].from = final_reactions[b].to
                 /\ final_reactions[a].to = final_reactions[b].from)

\* both directions between two seeds have a candidate edge and the run
\* has recorded the first of them
C30_Witness ==
    /\ net_pc = "done"
    /\ Len(reactants) = 2
    /\ DistinctSeeds
    /\ Candidates(reactants[1], reactants[2]) # {}
    /\ Candidates(reactants[2], reactants[1]) # {}
    /\ \E k \in 1..Len(final_reactions) :
          /\ final_reactions[k].from = reactants[1]
          /\ final_reactions[k].to = reactants[2]

\* the first frame of lowest energy of the whole trajectory
GlobalMin ==
    SetMin({i \in 0..(NFrames - 1) :
               \A k \in 0..(NFrames - 1) : E[i + 1] <= E[k + 1]})

\* C28: for every non-empty trajectory the list of accepted minima is not
\* empty when the point list is built: it holds the first frame of lowest
\* energy of the trajectory, and building the point list never raises.
C28_SomeMinimumAccepted ==
    /\ seg_pc # "raised"
    /\ seg_pc = "points" =>
          /\ imins # << >>
          /\ \E k \in 1..Len(imins) : imins[k] = GlobalMin

\* the point list is about to be built for a trajectory in which a region
\* gave no minimum and another frame has the energy of the lowest one
C28_Witness ==
    /\ seg_pc = "points"
    /\ Len(imins) < Len(regions)
    /\ \E k \in 0..(NFrames - 1) : k # GlobalMin /\ E[k + 1] = E[GlobalMin + 1]

\* C29: in a written record the energies, both identifier lists, the
\* stability flags and the stretch points have the same length, the first
\* and the last point are stable, and a transition point has a stable
\* point right before and right after it.
C29_RecordWellFormed ==
    seg_pc = "done" =>
        LET n == Len(out.stretch_points)
        IN /\ n >= 1
           /\ Len(out.E) = n
           /\ Len(out.SMILES_c) = n
           /\ Len(out.SMILES_i) = n
           /\ Len(out.is_stable) = n
           /\ out.is_stable[1]
           /\ out.is_stable[n]
           /\ \A k \in 1..n :
                 ~out.is_stable[k] =>
                    /\ 1 < k /\ k < n
                    /\ out.is_stable[k - 1]
                    /\ out.is_stable[k + 1]

\* a written record with a transition point
C29_Witness ==
    /\ seg_pc = "done"
    /\ \E k \in 1..Len(out.is_stable) : ~out.is_stable[k]

\* C31: at every point of a run the reactant of each summary row is a seed
\* or the product of a row with a strictly smaller reaction id.
C31_ReactantSeedOrEarlierProduct ==
    \A k \in 1..Len(final_reactions) :
        \/ final_reactions[k].from \in Range(reactants)
        \/ \E j \in 1..Len(final_reactions) :
              /\ final_reactions[j].reaction_id < final_reactions[k].reaction_id
              /\ final_reactions[j].to = final_reactions[k].from

\* a finished run with a reaction whose reactant is not a seed
C31_Witness ==
    /\ net_pc = "done"
    /\ \E k \in 1..Len(final_reactions) :
          final_reactions[k].from \notin Range(reactants)

\* the backward chain has been started: successive_optimization has been
\* called for the constraints before the pivot
BackwardStarted ==
    \/ chain = "backward"
    \/ job_pc \in {"backward_done", "done"}
    \/ \E k \in 1..Len(calls) : calls[k].chain = "backward"

====
